---- MODULE Spec2Model ----
\* Model of tools/wit_validator/wit_component_validator.py: the WIT export
\* parser (parse_wit_exports), the export comparison loop of validate_exports
\* and the command line driver main().
\*
\* Python strings are modelled as sequences of one-character strings, so that
\* strip(), startswith(), "in" and the three regular expressions are computed
\* character by character.  Optional[str] is a sequence of length at most one:
\* << >> is None and <<s>> is the string s.
EXTENDS Integers, Sequences, FiniteSets, TLC

VARIABLES
    pc,                 \* position of the run
    parse_result,       \* how parser.parse_args() ends for the command line
    encoding,           \* the encoding of sys.stdout
    stdout_state,       \* sys.stdout: "ok", "closed" (None) or "broken" (writes fail)
    stderr_state,       \* sys.stderr: "ok", "closed" (None) or "broken" (writes fail)
    unbuffered,         \* the standard streams are unbuffered (python -u)
    unflushed,          \* the standard streams that hold text they could not write
    raised,             \* an exception that nothing catches ended the run
    component_stat,     \* what Path(args.component).exists() meets
    wit_stat,           \* what Path(args.wit_file).exists() meets
    wit_open,           \* what open(expected_wit_path) and f.read() meet
    world,              \* args.world
    run_outcome,        \* how subprocess.run ended
    extract_calls,      \* number of subprocess.run calls of the run
    stdout,             \* result.stdout of the extractor
    wit_file,           \* content of the expected WIT file
    component_wit,      \* Optional[str] returned by extract_component_wit
    expected_wit,       \* Optional[str]: the text read from the WIT file
    wit_content,        \* argument of the running parse_wit_exports call
    lines,              \* lines of wit_content not yet scanned
    exports,            \* parse_wit_exports: exports
    current_interface,  \* parse_wit_exports: current_interface (Optional[str])
    ret,                \* which call of parse_wit_exports is running
    component_exports,  \* validate_exports: component_exports
    expected_exports,   \* validate_exports: expected_exports
    todo,               \* expected interfaces the comparison loop has not visited
    diffs,              \* per visited interface: what the loop computed
    validation_passed,  \* validate_exports: validation_passed
    success,            \* Optional[bool]: what validate_exports returned
    exit_code           \* Optional[int]: the exit status of the process

vars == <<pc, parse_result, encoding, stdout_state, stderr_state, unbuffered,
          unflushed, raised, component_stat, wit_stat, wit_open, world,
          run_outcome, extract_calls, stdout, wit_file, component_wit,
          expected_wit, wit_content, lines, exports, current_interface, ret,
          component_exports, expected_exports, todo, diffs, validation_passed,
          success, exit_code>>

----------------------------------------------------------------------------
\* Bounds of the model.

\* Longest text (in lines) given to a stand-alone parse_wit_exports call.
MaxLines == 3

\* Longest extractor output / WIT file (in lines) of a command line run.
MaxCliLines == 2

\* Largest number of interfaces of an ExportMap given to the comparison.
MaxKeys == 2

----------------------------------------------------------------------------
\* Python str primitives.

None == << >>

Some(s) == <<s>>

\* The whitespace characters that have no escape in a string of the model:
\* U+000B, U+001C to U+001F, U+0085, U+00A0 and U+1680.
VT == ""

FS == ""

GS == ""

RS == ""

US == ""

NEL == ""

NBSP == " "

OGHAM == " "

\* The whitespace characters that a string of the model cannot hold (U+2000
\* to U+200A, U+2028, U+2029, U+202F, U+205F and U+3000), each written as a
\* token that stands for the one character.
WSTokens ==
    {"U+2000", "U+2001", "U+2002", "U+2003", "U+2004", "U+2005", "U+2006",
     "U+2007", "U+2008", "U+2009", "U+200A", "U+2028", "U+2029", "U+202F",
     "U+205F", "U+3000"}

\* U+2028, the line separator.
LS == "U+2028"

\* str.isspace(): the 29 characters that str.strip() removes and \s matches.
WS ==
    {" ", "\t", "\n", "\r", "\f", VT, FS, GS, RS, US, NEL, NBSP, OGHAM}
        \cup WSTokens

Range(s) == {s[i] : i \in 1..Len(s)}

Min(S) == CHOOSE x \in S : \A y \in S : x <= y

Max(S) == CHOOSE x \in S : \A y \in S : x >= y

\* Number of leading whitespace characters of s.
LeadingWS(s) ==
    IF \A i \in 1..Len(s) : s[i] \in WS THEN Len(s)
    ELSE Min({i \in 1..Len(s) : s[i] \notin WS}) - 1

\* Number of trailing whitespace characters of s.
TrailingWS(s) ==
    IF \A i \in 1..Len(s) : s[i] \in WS THEN Len(s)
    ELSE Len(s) - Max({i \in 1..Len(s) : s[i] \notin WS})

\* s.strip()
Strip(s) ==
    IF LeadingWS(s) = Len(s) THEN << >>
    ELSE SubSeq(s, LeadingWS(s) + 1, Len(s) - TrailingWS(s))

\* s.startswith(p)
StartsWith(s, p) == Len(p) <= Len(s) /\ SubSeq(s, 1, Len(p)) = p

\* p in s (substring test; the empty string is in every string)
Contains(s, p) ==
    \E i \in 0..(Len(s) - Len(p)) : SubSeq(s, i + 1, i + Len(p)) = p

\* s[n:]
Drop(s, n) == SubSeq(s, n + 1, Len(s))

\* Length of the longest prefix of s that holds no character c.
RunNot(s, c) ==
    IF c \notin Range(s) THEN Len(s)
    ELSE Min({i \in 1..Len(s) : s[i] = c}) - 1

\* wit_content.split("\n")
RECURSIVE Split(_)
Split(s) ==
    IF "\n" \notin Range(s) THEN <<s>>
    ELSE <<SubSeq(s, 1, RunNot(s, "\n"))>> \o Split(Drop(s, RunNot(s, "\n") + 1))

\* "\n".join(ls)
RECURSIVE Join(_)
Join(ls) ==
    IF ls = << >> THEN << >>
    ELSE IF Len(ls) = 1 THEN ls[1]
    ELSE ls[1] \o <<"\n">> \o Join(Tail(ls))

\* What a text-mode read makes of a text (text=True of subprocess.run, mode
\* "r" of open): "\r\n" and a lone "\r" are read as "\n".
RECURSIVE UniversalNewlines(_)
UniversalNewlines(s) ==
    IF s = << >> THEN << >>
    ELSE IF s[1] # "\r" THEN <<s[1]>> \o UniversalNewlines(Tail(s))
    ELSE IF Len(s) >= 2 /\ s[2] = "\n" THEN <<"\n">> \o UniversalNewlines(Drop(s, 2))
    ELSE <<"\n">> \o UniversalNewlines(Tail(s))

----------------------------------------------------------------------------
\* Characters and the encoding of sys.stdout.

\* The ASCII characters of the model: U+0001 to U+007F without U+0060, which
\* a string of the model cannot hold.
Ascii ==
    {"", "", "", "", "", "", "", "", "\t", "\n", VT, "\f", "\r",
     "", "", "", "", "", "", "", "", "", "", "", "", "", "",
     FS, GS, RS, US, " ", "!", "\"", "#", "$", "%", "&", "'", "(", ")",
     "*", "+", ",", "-", ".", "/", "0", "1", "2", "3", "4", "5", "6", "7",
     "8", "9", ":", ";", "<", "=", ">", "?", "@", "A", "B", "C", "D", "E",
     "F", "G", "H", "I", "J", "K", "L", "M", "N", "O", "P", "Q", "R", "S",
     "T", "U", "V", "W", "X", "Y", "Z", "[", "\\", "]", "^", "_", "a", "b",
     "c", "d", "e", "f", "g", "h", "i", "j", "k", "l", "m", "n", "o", "p",
     "q", "r", "s", "t", "u", "v", "w", "x", "y", "z", "{", "|", "}", "~",
     ""}

\* The characters U+0080 to U+00FF.
Latin1High ==
    {"", "", "", "", "", NEL, "", "", "", "", "", "", "", "",
     "", "", "", "", "", "", "", "", "", "", "", "", "", "",
     "", "", "", "", NBSP, "¡", "¢", "£", "¤", "¥", "¦", "§", "¨", "©",
     "ª", "«", "¬", "­", "®", "¯", "°", "±", "²", "³", "´", "µ", "¶", "·",
     "¸", "¹", "º", "»", "¼", "½", "¾", "¿", "À", "Á", "Â", "Ã", "Ä", "Å",
     "Æ", "Ç", "È", "É", "Ê", "Ë", "Ì", "Í", "Î", "Ï", "Ð", "Ñ", "Ò", "Ó",
     "Ô", "Õ", "Ö", "×", "Ø", "Ù", "Ú", "Û", "Ü", "Ý", "Þ", "ß", "à", "á",
     "â", "ã", "ä", "å", "æ", "ç", "è", "é", "ê", "ë", "ì", "í", "î", "ï",
     "ð", "ñ", "ò", "ó", "ô", "õ", "ö", "÷", "ø", "ù", "ú", "û", "ü", "ý",
     "þ", "ÿ"}

\* The characters U+DC80 to U+DCFF that os.fsdecode makes of the bytes of a
\* command line argument that are no text; a string of the model cannot hold
\* them, each is written as a token that names the byte.
Surrogates ==
    {"<80>", "<81>", "<82>", "<83>", "<84>", "<85>", "<86>", "<87>",
     "<88>", "<89>", "<8A>", "<8B>", "<8C>", "<8D>", "<8E>", "<8F>",
     "<90>", "<91>", "<92>", "<93>", "<94>", "<95>", "<96>", "<97>",
     "<98>", "<99>", "<9A>", "<9B>", "<9C>", "<9D>", "<9E>", "<9F>",
     "<A0>", "<A1>", "<A2>", "<A3>", "<A4>", "<A5>", "<A6>", "<A7>",
     "<A8>", "<A9>", "<AA>", "<AB>", "<AC>", "<AD>", "<AE>", "<AF>",
     "<B0>", "<B1>", "<B2>", "<B3>", "<B4>", "<B5>", "<B6>", "<B7>",
     "<B8>", "<B9>", "<BA>", "<BB>", "<BC>", "<BD>", "<BE>", "<BF>",
     "<C0>", "<C1>", "<C2>", "<C3>", "<C4>", "<C5>", "<C6>", "<C7>",
     "<C8>", "<C9>", "<CA>", "<CB>", "<CC>", "<CD>", "<CE>", "<CF>",
     "<D0>", "<D1>", "<D2>", "<D3>", "<D4>", "<D5>", "<D6>", "<D7>",
     "<D8>", "<D9>", "<DA>", "<DB>", "<DC>", "<DD>", "<DE>", "<DF>",
     "<E0>", "<E1>", "<E2>", "<E3>", "<E4>", "<E5>", "<E6>", "<E7>",
     "<E8>", "<E9>", "<EA>", "<EB>", "<EC>", "<ED>", "<EE>", "<EF>",
     "<F0>", "<F1>", "<F2>", "<F3>", "<F4>", "<F5>", "<F6>", "<F7>",
     "<F8>", "<F9>", "<FA>", "<FB>", "<FC>", "<FD>", "<FE>", "<FF>"}

ByteFF == "<FF>"

\* The characters above U+007F of the model that str.isprintable() refuses:
\* repr() writes them as escapes.
NonPrintable ==
    {"", "", "", "", "", NEL, "", "", "", "", "", "", "", "",
     "", "", "", "", "", "", "", "", "", "", "", "", "", "",
     "", "", "", "", NBSP, "­"}
        \cup {OGHAM} \cup WSTokens \cup Surrogates

\* The encodings of sys.stdout (PYTHONIOENCODING, or the locale); the error
\* handler of sys.stdout is "strict".
Encodings == {"utf-8", "latin-1", "ascii"}

\* c.encode(enc) succeeds, for one character.
EncodesChar(enc, c) ==
    IF c \in Surrogates THEN FALSE
    ELSE IF c \in Ascii THEN TRUE
    ELSE IF c \in Latin1High THEN enc # "ascii"
    ELSE enc = "utf-8"

\* s.encode(enc) succeeds.
Encodes(enc, s) == \A i \in 1..Len(s) : EncodesChar(enc, s[i])

\* repr(s).encode(enc) succeeds: a message made from an OSError holds the
\* repr of the file name.
EncodesRepr(enc, s) ==
    \A i \in 1..Len(s) : s[i] \in NonPrintable \/ EncodesChar(enc, s[i])

\* The marks of the report (U+274C, U+2705, U+26A0 U+FE0F) can be encoded.
EncodesMarks(enc) == enc = "utf-8"

\* The states of a standard stream: it takes what is written, the process
\* was started without it (sys.stdout or sys.stderr is None), or every write
\* to its device fails (a full disk, a closed pipe).
StreamStates == {"ok", "closed", "broken"}

\* print(...): where the text goes.
OutTarget(io) == IF io.stdout = "closed" THEN "none" ELSE "stdout"

\* print(..., file=sys.stderr): print writes on sys.stdout when file is None.
ErrTarget(io) == IF io.stderr # "closed" THEN "stderr" ELSE OutTarget(io)

\* One print: the stream it writes on and whether its text can be encoded.
P(target, encodable) == [target |-> target, encodable |-> encodable]

\* The print raises: UnicodeEncodeError on sys.stdout for a text that cannot
\* be encoded, OSError when the device refuses the write (an unbuffered
\* sys.stdout writes at once, sys.stderr writes at the end of every line);
\* sys.stderr encodes with backslashreplace.
Raises(io, p) ==
    IF p.target = "stdout"
    THEN ~p.encodable \/ (io.stdout = "broken" /\ io.unbuffered)
    ELSE p.target = "stderr" /\ io.stderr = "broken"

\* The streams the print leaves with text that could not be written: a
\* buffered stream keeps it until the interpreter exits.
Keeps(io, p) ==
    IF p.target = "stdout" /\ p.encodable /\ io.stdout = "broken" /\ ~io.unbuffered
    THEN {"stdout"}
    ELSE IF p.target = "stderr" /\ io.stderr = "broken" /\ ~io.unbuffered
    THEN {"stderr"}
    ELSE {}

NoPrints == [raised |-> FALSE, kept |-> {}]

\* A sequence of prints: whether one of them raises (the later ones are then
\* not reached) and the streams left with unwritten text.
RECURSIVE Prints(_, _)
Prints(io, ps) ==
    IF ps = << >> THEN NoPrints
    ELSE IF Raises(io, ps[1]) THEN [raised |-> TRUE, kept |-> Keeps(io, ps[1])]
    ELSE [raised |-> Prints(io, Tail(ps)).raised,
          kept   |-> Keeps(io, ps[1]) \cup Prints(io, Tail(ps)).kept]

\* The traceback of an exception that nothing catches goes to sys.stderr.
Traceback(io) == Keeps(io, P("stderr", TRUE))

\* The exit status of the process: the interpreter flushes the standard
\* streams when it exits and gives status 120 when it cannot.
ProcessStatus(code, kept) == IF kept # {} THEN 120 ELSE code

----------------------------------------------------------------------------
\* The literals of parse_wit_exports.

kwExport == <<"e", "x", "p", "o", "r", "t">>

kwInterface == <<"i", "n", "t", "e", "r", "f", "a", "c", "e">>

kwFunc == <<"f", "u", "n", "c", "(">>

kwColonFunc == <<":", " ">> \o kwFunc

kwComment == <<"/", "/">>

kwClose == <<"}">>

\* Group 1 of re.match(kw\s+([^stop]+), line), as Optional[str].  \s+ is
\* greedy and gives characters back until [^stop]+ can take at least one;
\* [^stop]+ then takes the longest run without stop.
ReGroup(line, kw, stop) ==
    LET rest == Drop(line, Len(kw))
        w    == LeadingWS(rest)
        K    == {k \in 1..w : k + 1 <= Len(rest) /\ rest[k + 1] # stop}
    IN  IF ~StartsWith(line, kw) \/ K = {} THEN None
        ELSE Some(SubSeq(rest, Max(K) + 1,
                         Max(K) + RunNot(Drop(rest, Max(K)), stop)))

\* Group 1 of re.match(r"\s*([^:]+):\s*func\(", line), as Optional[str].
ReFunc(line) ==
    LET p == RunNot(line, ":") + 1      \* index of the first colon
        j == IF LeadingWS(line) < p - 2 THEN LeadingWS(line) ELSE p - 2
    IN  IF p > Len(line) \/ p < 2 THEN None
        ELSE IF ~StartsWith(Drop(Drop(line, p), LeadingWS(Drop(line, p))), kwFunc)
        THEN None
        ELSE Some(SubSeq(line, j + 1, p - 1))

----------------------------------------------------------------------------
\* parse_wit_exports, one line at a time.

EmptyMap == [k \in {} |-> {}]

\* Register without the test of lines 63 and 72: the entry is always reset.
Register_Reset(exp, name) ==
    [k \in DOMAIN exp \cup {name} |-> IF k = name THEN {} ELSE exp[k]]

\* if name not in exports: exports[name] = set()
Register(exp, name) ==
    IF name \in DOMAIN exp THEN exp ELSE exp @@ (name :> {})

\* Truth value of an Optional[str]: None and "" are false.
Truthy(opt) == opt # None /\ opt[1] # << >>

\* line.startswith("export ") and "@" in line
IsExportLine(line) ==
    StartsWith(line, kwExport \o <<" ">>) /\ Contains(line, <<"@">>)

\* line.startswith("interface ") and "{" not in line
IsInterfaceLine(line) ==
    StartsWith(line, kwInterface \o <<" ">>) /\ ~Contains(line, <<"{">>)

\* current_interface and ": func(" in line and not line.startswith("//")
IsFuncLine(cur, line) ==
    Truthy(cur) /\ Contains(line, kwColonFunc) /\ ~StartsWith(line, kwComment)

\* line == "}" and current_interface
IsCloseLine(cur, line) == line = kwClose /\ Truthy(cur)

\* The branch taken for an export line.
ExportRule(st, line) ==
    LET m == ReGroup(line, kwExport, ";")
    IN  IF m = None THEN st
        ELSE [st EXCEPT !.exports = Register(st.exports, Strip(m[1]))]

\* InterfaceRule without the registration of lines 72-73.
InterfaceRule_NoRegister(st, line) ==
    LET m == ReGroup(line, kwInterface, "{")
    IN  IF m = None THEN st
        ELSE [st EXCEPT !.current_interface = Some(Strip(m[1]))]

\* The branch taken for an interface line.
InterfaceRule(st, line) ==
    LET m == ReGroup(line, kwInterface, "{")
    IN  IF m = None THEN st
        ELSE [st EXCEPT !.current_interface = Some(Strip(m[1])),
                        !.exports = Register(st.exports, Strip(m[1]))]

\* FuncRule that records the line instead of group 1 of the match.
FuncRule_WholeLine(st, line) ==
    LET m   == ReFunc(line)
        cur == st.current_interface[1]
    IN  IF m = None THEN st
        ELSE IF cur \notin DOMAIN st.exports THEN [st EXCEPT !.error = TRUE]
        ELSE [st EXCEPT !.exports[cur] = @ \cup {line}]

\* The branch taken for a function line; exports[current_interface] raises
\* KeyError when current_interface is no key.
FuncRule(st, line) ==
    LET m   == ReFunc(line)
        cur == st.current_interface[1]
    IN  IF m = None THEN st
        ELSE IF cur \notin DOMAIN st.exports THEN [st EXCEPT !.error = TRUE]
        ELSE [st EXCEPT !.exports[cur] = @ \cup {Strip(m[1])}]

\* CloseRule that stays inside the interface.
CloseRule_Keep(st, line) == st

\* The branch taken for a closing brace.
CloseRule(st, line) == [st EXCEPT !.current_interface = None]

\* The body of the for loop: st is [exports, current_interface, error].
ParseLine(st, raw) ==
    LET line == Strip(raw)
    IN  IF IsExportLine(line) THEN ExportRule(st, line)
        ELSE IF IsInterfaceLine(line) THEN InterfaceRule(st, line)
        ELSE IF IsFuncLine(st.current_interface, line) THEN FuncRule(st, line)
        ELSE IF IsCloseLine(st.current_interface, line) THEN CloseRule(st, line)
        ELSE st

\* The whole call, as a fold over the lines.
RECURSIVE ParseFrom(_, _)
ParseFrom(st, ls) ==
    IF ls = << >> \/ st.error THEN st
    ELSE ParseFrom(ParseLine(st, Head(ls)), Tail(ls))

ParseStart == [exports |-> EmptyMap, current_interface |-> None, error |-> FALSE]

parse_wit_exports(text) == ParseFrom(ParseStart, Split(text)).exports

----------------------------------------------------------------------------
\* The comparison loop of validate_exports.

\* Matches with the second disjunct of line 130 left out.
Matches_OneWay(interface_name, comp_interface) ==
    Contains(comp_interface, interface_name)

\* interface_name in comp_interface or comp_interface in interface_name
Matches(interface_name, comp_interface) ==
    Contains(comp_interface, interface_name)
        \/ Contains(interface_name, comp_interface)

\* ComponentFunctions as a plain dictionary lookup of the interface name.
ComponentFunctions_Lookup(actual, interface_name) ==
    IF interface_name \in DOMAIN actual THEN actual[interface_name] ELSE {}

\* component_functions after the inner loop over component_exports.items()
ComponentFunctions(actual, interface_name) ==
    UNION {actual[k] : k \in {c \in DOMAIN actual : Matches(interface_name, c)}}

\* MissingFunctions as the symmetric difference: extra functions count too.
MissingFunctions_Symmetric(expected_functions, component_functions) ==
    (expected_functions \ component_functions)
        \cup (component_functions \ expected_functions)

\* expected_functions - component_functions
MissingFunctions(expected_functions, component_functions) ==
    expected_functions \ component_functions

\* component_functions - expected_functions
ExtraFunctions(expected_functions, component_functions) ==
    component_functions \ expected_functions

\* Skipped without the test of line 122.
Skipped_Never(expected_functions) == FALSE

\* if not expected_functions: continue
Skipped(expected_functions) == expected_functions = {}

\* CompareOne without "validation_passed = False" in the not-found branch.
CompareOne_NotFoundPasses(actual, interface_name, expected_functions) ==
    LET cf == UNION {actual[k] : k \in {c \in DOMAIN actual :
                        Contains(c, interface_name) \/ Contains(interface_name, c)}}
    IN  IF cf = {}
        THEN [not_found |-> TRUE, missing |-> {}, extra |-> {}, failed |-> FALSE]
        ELSE [not_found |-> FALSE,
              missing   |-> expected_functions \ cf,
              extra     |-> cf \ expected_functions,
              failed    |-> (expected_functions \ cf) # {}]

\* What one pass of the outer loop reports for an interface it does not skip:
\* the "not found" message, the missing list and the extra list, and whether
\* it sets validation_passed to False.
CompareOne(actual, interface_name, expected_functions) ==
    LET cf == ComponentFunctions(actual, interface_name)
    IN  IF cf = {}
        THEN [not_found |-> TRUE, missing |-> {}, extra |-> {}, failed |-> TRUE]
        ELSE [not_found |-> FALSE,
              missing   |-> MissingFunctions(expected_functions, cf),
              extra     |-> ExtraFunctions(expected_functions, cf),
              failed    |-> MissingFunctions(expected_functions, cf) # {}]

\* The value validate_exports returns for two export maps.
ValidationPassed(actual, expected) ==
    \A i \in DOMAIN expected :
        Skipped(expected[i]) \/ ~CompareOne(actual, i, expected[i]).failed

----------------------------------------------------------------------------
\* Inputs.

nA == <<"a">>

nB == <<"b">>

nAB == <<"a", "b">>

nA1 == <<"a", "@", "1">>

fF == <<"f">>

fG == <<"g">>

fH == <<"h">>

\* "export a@1;"
lnExport == kwExport \o <<" ">> \o nA1 \o <<";">>

\* "export  ;@"
lnExportBare == kwExport \o <<" ", " ", ";", "@">>

\* "interface <n> {"
lnHeaderBrace(n) == kwInterface \o <<" ">> \o n \o <<" ", "{">>

\* "interface <n>"
lnHeader(n) == kwInterface \o <<" ">> \o n

\* "<f>: func()"
lnFunc(f) == f \o kwColonFunc \o <<")">>

\* "\tg: func(x: u)"
lnIndented == <<"\t">> \o fG \o kwColonFunc \o <<"x", ":", " ", "u", ")">>

\* "// h: func()"
lnComment == kwComment \o <<" ">> \o lnFunc(fH)

\* "h: x: func()"
lnTwoColons == fH \o <<":", " ">> \o lnFunc(<<"x">>)

\* "<U+1680><VT>interface <FF><n>\r<U+2028>": a header after an ogham space
\* mark and a vertical tab, before a carriage return and a line separator,
\* with a form feed after the space that follows the keyword.
lnHeaderWS(n) ==
    <<OGHAM, VT>> \o kwInterface \o <<" ", "\f">> \o n \o <<"\r", LS>>

\* "<NBSP>interface <n>\r": a header of a file with "\r\n" line ends, after
\* a no-break space.
lnHeaderCR(n) == <<NBSP>> \o lnHeader(n) \o <<"\r">>

\* The lines texts given to a stand-alone parse are made of.
Corpus ==
    {lnExport, lnExportBare, lnHeaderBrace(nA), lnHeader(nA), lnHeaderWS(nAB),
     lnHeader(nA1), lnFunc(fF), lnIndented, lnComment, lnTwoColons, kwClose,
     << >>}

\* The lines the extractor prints and the WIT file of a run holds.
CliCorpus == {lnHeaderCR(nA), lnFunc(fF), lnFunc(fG), <<" ">>}

SeqsUpTo(S, n) == UNION {[1..k -> S] : k \in 0..n}

Texts == {Join(ls) : ls \in SeqsUpTo(Corpus, MaxLines)}

CliTexts == {Join(ls) : ls \in SeqsUpTo(CliCorpus, MaxCliLines)}

\* The texts of a run whose arguments, encoding or standard streams are not
\* the plain ones: no text, and two interfaces a that differ in their function.
SmallTexts ==
    {<< >>, Join(<<lnHeader(nA), lnFunc(fF)>>), Join(<<lnHeader(nA), lnFunc(fG)>>)}

\* Command line arguments: "c.wasm", "e.wit", "w1", "w2", "wasm-tools", "wt".
cWasm == <<"c", ".", "w", "a", "s", "m">>

eWit == <<"e", ".", "w", "i", "t">>

w1 == <<"w", "1">>

w2 == <<"w", "2">>

toolDefault == <<"w", "a", "s", "m", "-", "t", "o", "o", "l", "s">>

toolWt == <<"w", "t">>

\* Arguments with a character that ASCII cannot encode, that Latin-1 cannot
\* encode, and with a byte that is no text: "wé", "é.wasm", "é.wit", "tôol",
\* "w€", "w<FF>", "c<FF>.wasm".
wLatin == <<"w", "é">>

cLatin == <<"é", ".", "w", "a", "s", "m">>

eLatin == <<"é", ".", "w", "i", "t">>

toolLatin == <<"t", "ô", "o", "l">>

wWide == <<"w", "€">>

wBytes == <<"w", ByteFF>>

cBytes == <<"c", ByteFF, ".", "w", "a", "s", "m">>

Worlds == {w1, w2, wLatin, wWide, wBytes}

\* The namespace parse_args returns.
Args(c, e, w, t, v) ==
    [status |-> "ok", component |-> c, wit_file |-> e, world |-> w,
     wasm_tools |-> t, verbose |-> v]

\* A command line for which parse_args does not return.
NoArgs(status) ==
    [status |-> status, component |-> << >>, wit_file |-> << >>, world |-> << >>,
     wasm_tools |-> << >>, verbose |-> FALSE]

\* How parser.parse_args() can end for a command line: it returns the
\* namespace (the three positional arguments are there and every option is
\* known), or argparse ends the run itself, after printing the help for
\* -h/--help or the usage for a command line in error.
ParseResults ==
    {Args(cWasm, eWit, w, toolDefault, FALSE) : w \in Worlds}
        \cup {Args(c, eWit, w1, toolDefault, FALSE) : c \in {cLatin, cBytes}}
        \cup {Args(cWasm, eLatin, w1, toolDefault, FALSE),
              Args(cWasm, eWit, w1, toolLatin, FALSE),
              Args(cWasm, eWit, w1, toolWt, TRUE),
              Args(cWasm, eWit, wLatin, toolDefault, TRUE),
              Args(cWasm, eWit, w1, toolLatin, TRUE),
              NoArgs("help"), NoArgs("error")}

\* The status argparse ends the run with: 0 after the help, 2 after an error.
ParserExit(status) == IF status = "help" THEN 0 ELSE 2

\* The encoding, the standard streams and their buffering.
Environments ==
    [encoding : Encodings, stdout : StreamStates, stderr : StreamStates,
     unbuffered : BOOLEAN]

\* The plain environment: UTF-8 and standard streams that take every write.
PlainIO ==
    [encoding |-> "utf-8", stdout |-> "ok", stderr |-> "ok", unbuffered |-> FALSE]

\* What Path(p).exists() meets: the file, no file, or an OSError of stat
\* other than "not found" (a name that is too long, a directory that cannot
\* be searched).
StatStates == {"exists", "missing", "OSError"}

\* What open(p, "r") and f.read() meet: the text, an OSError (a directory, a
\* file without read permission) or bytes that are no text.
OpenStates == {"ok", "OSError", "UnicodeDecodeError"}

\* The run has plain arguments and streams that take every write: its
\* extractor output and WIT file range over all the texts of CliTexts.
PlainRun(a, io) ==
    /\ a \in {Args(cWasm, eWit, w, toolDefault, FALSE) : w \in {w1, w2}}
    /\ io.stdout = "ok" /\ io.stderr = "ok" /\ ~io.unbuffered
    /\ io.encoding \in {"utf-8", "ascii"}

\* The extractor outputs and the WIT files of a run.
RunTexts(a, io) == IF PlainRun(a, io) THEN CliTexts ELSE SmallTexts


\* Interface names and function names of the export maps given to the
\* comparison: two unrelated names and one that contains both.
NameUniverse == {nA, nB, nAB}

FuncUniverse == {fF, fG}

ExportMaps ==
    UNION {[D -> SUBSET FuncUniverse] :
             D \in {D \in SUBSET NameUniverse : Cardinality(D) <= MaxKeys}}

----------------------------------------------------------------------------
\* Actions.

ParseIdle ==
    /\ wit_content = << >>
    /\ lines = << >>
    /\ exports = EmptyMap
    /\ current_interface = None
    /\ ret = "none"

CompareIdle ==
    /\ component_exports = EmptyMap
    /\ expected_exports = EmptyMap
    /\ todo = {}
    /\ diffs = EmptyMap
    /\ validation_passed = TRUE

MainIdle ==
    /\ parse_result = Args(cWasm, eWit, w1, toolDefault, FALSE)
    /\ raised = FALSE
    /\ component_stat = "exists"
    /\ wit_stat = "exists"
    /\ wit_open = "ok"
    /\ world = w1
    /\ run_outcome = "none"
    /\ extract_calls = 0
    /\ stdout = << >>
    /\ wit_file = << >>
    /\ component_wit = None
    /\ expected_wit = None
    /\ success = None
    /\ exit_code = None

\* The encoding and the standard streams of the process.
IO ==
    [encoding |-> encoding, stdout |-> stdout_state, stderr |-> stderr_state,
     unbuffered |-> unbuffered]

\* The process starts in the environment io.
StartsIn(io) ==
    /\ encoding = io.encoding
    /\ stdout_state = io.stdout
    /\ stderr_state = io.stderr
    /\ unbuffered = io.unbuffered

\* Path(args.component).exists(), Path(args.wit_file).exists()
component_exists == component_stat = "exists"

wit_exists == wit_stat = "exists"

envVars == <<parse_result, encoding, stdout_state, stderr_state, unbuffered,
             component_stat, wit_stat, wit_open>>

mainVars == <<envVars, world, wit_file>>

extractVars == <<run_outcome, extract_calls, stdout, component_wit>>

parseVars == <<wit_content, lines, exports, current_interface, ret>>

compareVars == <<component_exports, expected_exports, todo, diffs,
                 validation_passed>>

endVars == <<raised, unflushed, exit_code>>

\* An exception that nothing catches: the interpreter writes the traceback on
\* sys.stderr and ends the run with status 1.
Uncaught(kept) ==
    /\ raised' = TRUE
    /\ unflushed' = unflushed \cup kept \cup Traceback(IO)
    /\ pc' = "exit"
    /\ exit_code' = Some(ProcessStatus(1, unflushed \cup kept \cup Traceback(IO)))

\* sys.exit(code)
Exit(code, kept) ==
    /\ unflushed' = unflushed \cup kept
    /\ pc' = "exit"
    /\ exit_code' = Some(ProcessStatus(code, unflushed \cup kept))
    /\ UNCHANGED raised

\* The run goes on at position next.
Continue(next, kept) ==
    /\ unflushed' = unflushed \cup kept
    /\ pc' = next
    /\ UNCHANGED <<raised, exit_code>>

\* One iteration of "for line in lines" of parse_wit_exports.
ParseStep ==
    /\ pc = "parse"
    /\ lines # << >>
    /\ LET st == ParseLine([exports |-> exports,
                            current_interface |-> current_interface,
                            error |-> FALSE], Head(lines))
       IN  /\ exports' = st.exports
           /\ current_interface' = st.current_interface
           /\ pc' = IF st.error THEN "error" ELSE "parse"
    /\ lines' = Tail(lines)
    /\ UNCHANGED <<mainVars, extractVars, compareVars, wit_content, ret,
                   expected_wit, success, endVars>>

\* "return exports" of a stand-alone call.
ParseReturn ==
    /\ pc = "parse"
    /\ lines = << >>
    /\ ret = "standalone"
    /\ pc' = "parsed"
    /\ UNCHANGED <<mainVars, extractVars, parseVars, compareVars,
                   expected_wit, success, endVars>>

\* The prints of one iteration that is not skipped: the name of the interface
\* (line 125), then at least one line with a mark (lines 135, 145, 149, 153).
ReportPrints(io, interface_name) ==
    <<P(OutTarget(io), Encodes(io.encoding, interface_name)),
      P(OutTarget(io), EncodesMarks(io.encoding))>>

\* The verdict line of the summary carries a mark (lines 157 and 161).
SummaryPrints(io) == <<P(OutTarget(io), EncodesMarks(io.encoding))>>

\* One iteration of "for interface_name, expected_functions in
\* expected_exports.items()".  An interface that is not skipped gets at least
\* one line of report with a mark; when sys.stdout cannot encode the mark,
\* print raises UnicodeEncodeError before validation_passed is assigned,
\* nothing catches it and the interpreter ends the run.
CompareInterface ==
    /\ pc = "compare"
    /\ \E i \in todo :
         IF Skipped(expected_exports[i])
         THEN /\ todo' = todo \ {i}
              /\ UNCHANGED <<pc, diffs, validation_passed, endVars>>
         ELSE IF ~Prints(IO, ReportPrints(IO, i)).raised
         THEN LET d == CompareOne(component_exports, i, expected_exports[i])
              IN  /\ todo' = todo \ {i}
                  /\ diffs' = diffs @@ (i :> d)
                  /\ validation_passed' = (validation_passed /\ ~d.failed)
                  /\ Continue("compare", Prints(IO, ReportPrints(IO, i)).kept)
         ELSE /\ Uncaught(Prints(IO, ReportPrints(IO, i)).kept)
              /\ UNCHANGED <<todo, diffs, validation_passed>>
    /\ UNCHANGED <<mainVars, extractVars, parseVars, component_exports,
                   expected_exports, expected_wit, success>>

\* The summary after the loop: the verdict line is printed, then
\* validate_exports returns validation_passed; when print raises,
\* validate_exports does not return and the interpreter ends the run.
Summary ==
    /\ pc = "compare"
    /\ todo = {}
    /\ IF ~Prints(IO, SummaryPrints(IO)).raised
       THEN /\ success' = Some(validation_passed)
            /\ Continue("returned", Prints(IO, SummaryPrints(IO)).kept)
       ELSE /\ Uncaught(Prints(IO, SummaryPrints(IO)).kept)
            /\ UNCHANGED success
    /\ UNCHANGED <<mainVars, extractVars, parseVars, compareVars, expected_wit>>

----------------------------------------------------------------------------
\* A stand-alone call of parse_wit_exports on any text of the corpus.

InitParse ==
    /\ pc = "parse"
    /\ MainIdle
    /\ StartsIn(PlainIO)
    /\ unflushed = {}
    /\ CompareIdle
    /\ wit_content \in Texts
    /\ lines = Split(wit_content)
    /\ exports = EmptyMap
    /\ current_interface = None
    /\ ret = "standalone"

NextParse == ParseStep \/ ParseReturn

SpecParse == InitParse /\ [][NextParse]_vars

\* The environments of the comparison loop: the plain one, an encoding
\* without the marks, no sys.stdout at all, and a sys.stdout whose buffer
\* cannot be written (it holds the lines printed before the loop).
CompareEnvironments ==
    {PlainIO,
     [PlainIO EXCEPT !.encoding = "ascii"],
     [PlainIO EXCEPT !.encoding = "latin-1", !.stderr = "broken"],
     [PlainIO EXCEPT !.encoding = "ascii", !.stdout = "closed"],
     [PlainIO EXCEPT !.stdout = "broken"]}

\* The comparison loop on any two export maps.
InitCompare ==
    /\ pc = "compare"
    /\ MainIdle
    /\ \E io \in CompareEnvironments : StartsIn(io)
    /\ unflushed = Keeps(IO, P(OutTarget(IO), TRUE))
    /\ ParseIdle
    /\ component_exports \in ExportMaps
    /\ expected_exports \in ExportMaps
    /\ todo = DOMAIN expected_exports
    /\ diffs = EmptyMap
    /\ validation_passed = TRUE

NextCompare == CompareInterface \/ Summary

SpecCompare == InitCompare /\ [][NextCompare]_vars

----------------------------------------------------------------------------
\* A run of the command line: main() and validate_exports.

\* How subprocess.run can end: exit status 0, another exit status,
\* TimeoutExpired, an exception because the tool cannot be started, or an
\* exception because its output is no text.
Outcomes == {"ok", "nonzero", "timeout", "oserror", "undecodable"}

\* extract_component_wit: the value returned for an outcome and the text
\* result.stdout.
ExtractResult(outcome, out) ==
    IF outcome = "ok" THEN Some(Strip(out)) ELSE None

\* print_help: argparse writes the help on sys.stdout, on sys.stderr when
\* there is no sys.stdout, and ignores a write that fails.
HelpPrints(io) ==
    <<P(IF io.stdout # "closed" THEN "stdout"
        ELSE IF io.stderr # "closed" THEN "stderr" ELSE "none", TRUE)>>

\* parser.error: the usage is written like a print on sys.stderr, the
\* message on sys.stderr when there is one; a write that fails is ignored.
UsagePrints(io) ==
    <<P(ErrTarget(io), TRUE),
      P(IF io.stderr # "closed" THEN "stderr" ELSE "none", TRUE)>>

\* The streams the writes of argparse leave with unwritten text.
RECURSIVE KeptOf(_, _)
KeptOf(io, ps) ==
    IF ps = << >> THEN {} ELSE Keeps(io, ps[1]) \cup KeptOf(io, Tail(ps))

\* Lines 185 to 188.
VerbosePrints(io, a) ==
    IF a.verbose
    THEN <<P(OutTarget(io), Encodes(io.encoding, a.component)),
           P(OutTarget(io), Encodes(io.encoding, a.wit_file)),
           P(OutTarget(io), Encodes(io.encoding, a.world)),
           P(OutTarget(io), Encodes(io.encoding, a.wasm_tools))>>
    ELSE << >>

\* Lines 192 and 196: the message names the path.
MissingPrints(io, path) == <<P(ErrTarget(io), Encodes(io.encoding, path))>>

\* Lines 94 to 96.
HeaderPrints(io, a) ==
    <<P(OutTarget(io), Encodes(io.encoding, a.component)),
      P(OutTarget(io), Encodes(io.encoding, a.wit_file)),
      P(OutTarget(io), Encodes(io.encoding, a.world))>>

\* The message of extract_component_wit for a failed extraction.  Line 35 is
\* inside the try: when its text cannot be encoded, line 43 catches the
\* UnicodeEncodeError and line 44 prints it; when the device refuses the
\* write, line 44 meets the same OSError.  Lines 41 and 44 are in handlers.
\* The message of line 44 for a tool that cannot be started holds the repr
\* of its name.
ExtractPrints(io, a, outcome) ==
    IF outcome = "ok" THEN << >>
    ELSE IF outcome = "oserror"
    THEN <<P(ErrTarget(io), EncodesRepr(io.encoding, a.wasm_tools))>>
    ELSE <<P(ErrTarget(io), TRUE)>>

\* Line 108: the message of an OSError holds the repr of the path.
ReadPrints(io, a, open_state) ==
    IF open_state = "ok" THEN << >>
    ELSE IF open_state = "OSError"
    THEN <<P(ErrTarget(io), EncodesRepr(io.encoding, a.wit_file))>>
    ELSE <<P(ErrTarget(io), TRUE)>>

\* Lines 115 and 116.
FoundPrints(io) == <<P(OutTarget(io), TRUE), P(OutTarget(io), TRUE)>>

\* args = parser.parse_args(), then the prints of --verbose: argparse ends
\* the run with the status of a help request (0) or of an error (2), a print
\* that raises ends it, or the run goes on with args.world.
ParseArgs ==
    /\ pc = "parse_args"
    /\ IF parse_result.status = "help"
       THEN Exit(ParserExit("help"), KeptOf(IO, HelpPrints(IO))) /\ UNCHANGED world
       ELSE IF parse_result.status # "ok"
       THEN Exit(ParserExit(parse_result.status), KeptOf(IO, UsagePrints(IO)))
               /\ UNCHANGED world
       ELSE IF Prints(IO, VerbosePrints(IO, parse_result)).raised
       THEN Uncaught(Prints(IO, VerbosePrints(IO, parse_result)).kept)
               /\ UNCHANGED world
       ELSE /\ world' = parse_result.world
            /\ Continue("main", Prints(IO, VerbosePrints(IO, parse_result)).kept)
    /\ UNCHANGED <<envVars, wit_file, extractVars, parseVars, compareVars,
                   expected_wit, success>>

\* if not Path(args.component).exists(): print(...); sys.exit(1)
CheckComponent ==
    /\ pc = "main"
    /\ IF component_stat = "OSError" THEN Uncaught({})
       ELSE IF component_stat = "exists" THEN Continue("check_wit", {})
       ELSE IF Prints(IO, MissingPrints(IO, parse_result.component)).raised
       THEN Uncaught(Prints(IO, MissingPrints(IO, parse_result.component)).kept)
       ELSE Exit(1, Prints(IO, MissingPrints(IO, parse_result.component)).kept)
    /\ UNCHANGED <<mainVars, extractVars, parseVars, compareVars,
                   expected_wit, success>>

\* CheckWit without the sys.exit(1) of line 197.
CheckWit_NoExit ==
    /\ pc = "check_wit"
    /\ Continue("validate", {})
    /\ UNCHANGED <<mainVars, extractVars, parseVars, compareVars,
                   expected_wit, success>>

\* if not Path(args.wit_file).exists(): print(...); sys.exit(1)
CheckWit ==
    /\ pc = "check_wit"
    /\ IF wit_stat = "OSError" THEN Uncaught({})
       ELSE IF wit_stat = "exists" THEN Continue("validate", {})
       ELSE IF Prints(IO, MissingPrints(IO, parse_result.wit_file)).raised
       THEN Uncaught(Prints(IO, MissingPrints(IO, parse_result.wit_file)).kept)
       ELSE Exit(1, Prints(IO, MissingPrints(IO, parse_result.wit_file)).kept)
    /\ UNCHANGED <<mainVars, extractVars, parseVars, compareVars,
                   expected_wit, success>>

\* validator.validate_exports(args.component, args.wit_file, args.world)
\* starts: it prints the two paths and the world name on sys.stdout.
ValidateExports ==
    /\ pc = "validate"
    /\ IF Prints(IO, HeaderPrints(IO, parse_result)).raised
       THEN Uncaught(Prints(IO, HeaderPrints(IO, parse_result)).kept)
       ELSE Continue("extract", Prints(IO, HeaderPrints(IO, parse_result)).kept)
    /\ UNCHANGED <<mainVars, extractVars, parseVars, compareVars,
                   expected_wit, success>>

\* component_wit = self.extract_component_wit(component_path): the extractor
\* prints out, subprocess.run reads it in text mode; after a failed
\* extraction the message is printed on sys.stderr.
Extract ==
    /\ pc = "extract"
    /\ \E outcome \in Outcomes, out \in RunTexts(parse_result, IO) :
         /\ outcome # "ok" => out = << >>
         /\ run_outcome' = outcome
         /\ extract_calls' = extract_calls + 1
         /\ stdout' = UniversalNewlines(out)
         /\ component_wit' = ExtractResult(outcome, UniversalNewlines(out))
         /\ IF Prints(IO, ExtractPrints(IO, parse_result, outcome)).raised
            THEN Uncaught(Prints(IO, ExtractPrints(IO, parse_result, outcome)).kept)
            ELSE Continue("extracted",
                          Prints(IO, ExtractPrints(IO, parse_result, outcome)).kept)
    /\ UNCHANGED <<mainVars, parseVars, compareVars, expected_wit, success>>

\* CheckExtracted that calls the extractor again after a failed extraction.
CheckExtracted_Retry ==
    /\ pc = "extracted"
    /\ pc' = IF Truthy(component_wit) THEN "read_expected" ELSE "extract"
    /\ UNCHANGED <<mainVars, extractVars, parseVars, compareVars,
                   expected_wit, success, endVars>>

\* if not component_wit: return False
CheckExtracted ==
    /\ pc = "extracted"
    /\ IF Truthy(component_wit)
       THEN pc' = "read_expected" /\ UNCHANGED success
       ELSE pc' = "returned" /\ success' = Some(FALSE)
    /\ UNCHANGED <<mainVars, extractVars, parseVars, compareVars,
                   expected_wit, endVars>>

\* Reading the expected WIT file (in text mode), then the call
\* component_exports = self.parse_wit_exports(component_wit); a file that
\* cannot be read gets a message on sys.stderr and "return False".
ReadExpected ==
    /\ pc = "read_expected"
    /\ IF wit_open = "ok"
       THEN /\ \E file \in RunTexts(parse_result, IO) :
                 /\ wit_file' = file
                 /\ expected_wit' = Some(UniversalNewlines(file))
            /\ wit_content' = component_wit[1]
            /\ lines' = Split(component_wit[1])
            /\ exports' = EmptyMap
            /\ current_interface' = None
            /\ ret' = "component"
            /\ pc' = "parse"
            /\ UNCHANGED <<success, endVars>>
       ELSE IF Prints(IO, ReadPrints(IO, parse_result, wit_open)).raised
       THEN /\ Uncaught(Prints(IO, ReadPrints(IO, parse_result, wit_open)).kept)
            /\ UNCHANGED <<wit_file, parseVars, expected_wit, success>>
       ELSE /\ success' = Some(FALSE)
            /\ Continue("returned",
                        Prints(IO, ReadPrints(IO, parse_result, wit_open)).kept)
            /\ UNCHANGED <<wit_file, parseVars, expected_wit>>
    /\ UNCHANGED <<envVars, world, extractVars, compareVars>>

\* The first parse returns; expected_exports = self.parse_wit_exports(expected_wit)
\* is called.
ParseComponentReturn ==
    /\ pc = "parse"
    /\ lines = << >>
    /\ ret = "component"
    /\ component_exports' = exports
    /\ wit_content' = expected_wit[1]
    /\ lines' = Split(expected_wit[1])
    /\ exports' = EmptyMap
    /\ current_interface' = None
    /\ ret' = "expected"
    /\ UNCHANGED <<pc, mainVars, extractVars, expected_exports, todo, diffs,
                   validation_passed, expected_wit, success, endVars>>

\* The second parse returns; the two counts are printed, validation_passed =
\* True and the loop starts.
ParseExpectedReturn ==
    /\ pc = "parse"
    /\ lines = << >>
    /\ ret = "expected"
    /\ expected_exports' = exports
    /\ IF Prints(IO, FoundPrints(IO)).raised
       THEN /\ Uncaught(Prints(IO, FoundPrints(IO)).kept)
            /\ UNCHANGED <<todo, diffs, validation_passed>>
       ELSE /\ todo' = DOMAIN exports
            /\ diffs' = EmptyMap
            /\ validation_passed' = TRUE
            /\ Continue("compare", Prints(IO, FoundPrints(IO)).kept)
    /\ UNCHANGED <<mainVars, extractVars, parseVars, component_exports,
                   expected_wit, success>>

\* sys.exit(0 if success else 1)
SysExit ==
    /\ pc = "returned"
    /\ Exit(IF success[1] THEN 0 ELSE 1, {})
    /\ UNCHANGED <<mainVars, extractVars, parseVars, compareVars,
                   expected_wit, success>>

\* The process starts with its command line, its encoding and standard
\* streams, and the files on disk.
Init ==
    /\ pc = "parse_args"
    /\ parse_result \in ParseResults
    /\ \E io \in Environments : StartsIn(io)
    /\ unflushed = {}
    /\ raised = FALSE
    /\ component_stat \in StatStates
    /\ wit_stat \in StatStates
    /\ wit_open \in OpenStates
    /\ wit_stat # "exists" => wit_open = "OSError"
    /\ world = << >>
    /\ wit_file = << >>
    /\ run_outcome = "none"
    /\ extract_calls = 0
    /\ stdout = << >>
    /\ component_wit = None
    /\ expected_wit = None
    /\ success = None
    /\ exit_code = None
    /\ ParseIdle
    /\ CompareIdle

Next ==
    \/ ParseArgs
    \/ CheckComponent
    \/ CheckWit
    \/ ValidateExports
    \/ Extract
    \/ CheckExtracted
    \/ ReadExpected
    \/ ParseStep
    \/ ParseComponentReturn
    \/ ParseExpectedReturn
    \/ CompareInterface
    \/ Summary
    \/ SysExit

Spec == Init /\ [][Next]_vars

----------------------------------------------------------------------------
\* Claims about the comparison (checked under SpecCompare).

\* Substring containment of two names in either direction.
Related(a, b) == Contains(a, b) \/ Contains(b, a)

\* The functions of every key of m related to name i.
UnionOfRelated(m, i) == UNION {m[k] : k \in {c \in DOMAIN m : Related(c, i)}}

\* C1: the comparison passes if and only if, for every expected interface
\* with a non-empty function set, the union of the function sets of the actual
\* keys related to it by containment is non-empty and holds every expected
\* function; an interface that failed makes the verdict false.  (The loop ends
\* without a verdict only when a print of its report raises: there is a
\* sys.stdout and it cannot encode the marks.)
C1_PassedIffAllFound ==
    /\ raised => stdout_state # "closed" /\ ~EncodesMarks(encoding)
    /\ pc = "exit" => raised
    /\ pc = "returned" =>
         (validation_passed <=>
            \A i \in DOMAIN expected_exports :
               expected_exports[i] # {} =>
                  /\ UnionOfRelated(component_exports, i) # {}
                  /\ expected_exports[i] \subseteq
                        UnionOfRelated(component_exports, i))
    /\ \A i \in DOMAIN diffs : diffs[i].failed => ~validation_passed

\* A finished comparison of two interfaces, the first of which failed (nothing
\* matched it) while the second found all its functions.
C1_Witness ==
    /\ pc = "returned"
    /\ ~validation_passed
    /\ \E i, j \in DOMAIN diffs :
         /\ diffs[i].not_found
         /\ ~diffs[j].failed
         /\ expected_exports[j] \subseteq UnionOfRelated(component_exports, j)

\* C4 as stated: comparing a map with itself passes and reports no missing and
\* no extra function for any interface with functions.
C4_SelfCompareNoExtra ==
    (pc = "returned" /\ component_exports = expected_exports) =>
        /\ validation_passed
        /\ \A i \in DOMAIN expected_exports :
              expected_exports[i] # {} =>
                 /\ i \in DOMAIN diffs
                 /\ diffs[i].missing = {}
                 /\ diffs[i].extra = {}

\* C4 (amended): comparing a map E with itself passes and reports no missing
\* function; the extra functions of an interface are exactly the functions of
\* the other keys of E related to it by containment that it does not have
\* itself, so they are empty when no other key is related to it.
C4_SelfComparePasses ==
    (pc = "returned" /\ component_exports = expected_exports) =>
        /\ validation_passed
        /\ \A i \in DOMAIN expected_exports :
              expected_exports[i] # {} =>
                 /\ i \in DOMAIN diffs
                 /\ ~diffs[i].not_found
                 /\ diffs[i].missing = {}
                 /\ diffs[i].extra =
                       UNION {expected_exports[k] :
                                k \in {c \in DOMAIN expected_exports \ {i} :
                                         Related(c, i)}}
                          \ expected_exports[i]

\* A finished self-comparison of a map with two keys, one a substring of the
\* other, where the shorter one is given the functions of the longer one as
\* extra functions.
C4_Witness ==
    /\ pc = "returned"
    /\ component_exports = expected_exports
    /\ \E i, k \in DOMAIN expected_exports :
         /\ i # k
         /\ Contains(k, i)
         /\ expected_exports[i] # {}
         /\ diffs[i].extra # {}
         /\ diffs[i].missing = {}

\* Maps obtained from m by removing interfaces or functions.
SubMaps(m) ==
    UNION {{b \in [D -> SUBSET FuncUniverse] : \A k \in D : b[k] \subseteq m[k]} :
             D \in SUBSET DOMAIN m}

\* The functions of m that b does not have.
AddedFunctions(b, m) ==
    UNION {IF k \in DOMAIN b THEN m[k] \ b[k] ELSE m[k] : k \in DOMAIN m}

\* C5: if the comparison passes for a map, it passes for every map obtained
\* from it by adding functions or interfaces, no function is then missing,
\* and what the extra functions gain are added functions.
C5_ExtraNeverFails ==
    pc = "returned" =>
        \A base \in SubMaps(component_exports) :
            ValidationPassed(base, expected_exports) =>
                /\ validation_passed
                /\ \A i \in DOMAIN diffs :
                      /\ ~diffs[i].not_found
                      /\ diffs[i].missing = {}
                      /\ diffs[i].extra \subseteq
                            (UnionOfRelated(base, i) \ expected_exports[i])
                               \cup AddedFunctions(base, component_exports)

\* A finished comparison that reports extra functions, of a map that extends
\* one for which the comparison passes without any extra function.
C5_Witness ==
    /\ pc = "returned"
    /\ validation_passed
    /\ \E base \in SubMaps(component_exports) :
         /\ base # component_exports
         /\ ValidationPassed(base, expected_exports)
         /\ \E i \in DOMAIN diffs :
              /\ diffs[i].extra # {}
              /\ UnionOfRelated(base, i) = expected_exports[i]

\* The interfaces of e that have functions.
NonEmptyPart(e) == [i \in {j \in DOMAIN e : e[j] # {}} |-> e[i]]

\* C6: expected interfaces without functions never contribute: they get no
\* report, the verdict is the verdict for the expected map without them, and
\* an expected map without any function passes.
C6_EmptyInterfacesIgnored ==
    /\ \A i \in DOMAIN diffs : expected_exports[i] # {}
    /\ pc = "returned" =>
         /\ validation_passed =
               ValidationPassed(component_exports, NonEmptyPart(expected_exports))
         /\ (\A i \in DOMAIN expected_exports : expected_exports[i] = {})
               => validation_passed

\* A finished, passing comparison whose expected map has an interface without
\* functions that no actual key matches, besides one with functions.
C6_Witness ==
    /\ pc = "returned"
    /\ validation_passed
    /\ \E i, j \in DOMAIN expected_exports :
         /\ expected_exports[i] = {}
         /\ \A k \in DOMAIN component_exports : ~Related(k, i)
         /\ expected_exports[j] # {}

\* C7 as stated: a compared interface is reported as found if and only if
\* some actual key is related to it by containment, whatever its functions.
C7_FoundIffKeyMatches ==
    \A i \in DOMAIN diffs :
        (~diffs[i].not_found) <=>
            (\E k \in DOMAIN component_exports : Related(k, i))

\* C8: for names A, B with A a substring of B and a non-empty function set F,
\* the comparison of {B: F} with {A: F} passes, and so does the comparison of
\* {A: F} with {B: F}.
C8_MatchingSymmetric ==
    pc = "returned" =>
        \A a \in DOMAIN component_exports, b \in DOMAIN expected_exports :
            ( /\ DOMAIN component_exports = {a}
              /\ DOMAIN expected_exports = {b}
              /\ Related(a, b)
              /\ component_exports[a] = expected_exports[b]
              /\ expected_exports[b] # {} ) => validation_passed

\* A finished comparison of {A: F} (actual) with {B: F} (expected), A a proper
\* substring of B.
C8_Witness ==
    /\ pc = "returned"
    /\ validation_passed
    /\ \E a \in DOMAIN component_exports, b \in DOMAIN expected_exports :
         /\ DOMAIN component_exports = {a}
         /\ DOMAIN expected_exports = {b}
         /\ a # b
         /\ Contains(b, a)
         /\ component_exports[a] = expected_exports[b]
         /\ expected_exports[b] # {}

----------------------------------------------------------------------------
\* Claims about the parser (checked under SpecParse).

\* The text "interface <n> {", then one "<f>: func()" line per function of fs,
\* then "}".
BlockText(n, fs) ==
    Join(<<lnHeaderBrace(n)>> \o [i \in 1..Len(fs) |-> lnFunc(fs[i])] \o <<kwClose>>)

\* C3 as stated: for a text made of a line "interface N {", lines
\* "F: func(...)" and a line "}", the returned map has the key N and N's
\* function set holds every F.
C3_InterfaceBlockRecognized ==
    pc = "parsed" =>
        \A n \in {nA}, fs \in SeqsUpTo({fF}, 1) :
            wit_content = BlockText(n, fs) =>
                /\ n \in DOMAIN exports
                /\ Range(fs) \subseteq exports[n]

\* C9 as stated: every key of the map of parse_wit_exports is non-empty.
C9_KeysNonEmpty == \A k \in DOMAIN exports : k # << >>

\* C10: the scan never reaches an error state: a function is only added to
\* an interface that is a key of the map, every line is consumed, and the
\* call returns the accumulated map after the last line.
C10_ParseNeverFails ==
    /\ pc \in {"parse", "parsed"}
    /\ Truthy(current_interface) => current_interface[1] \in DOMAIN exports
    /\ Len(lines) <= Len(Split(wit_content))
    /\ pc = "parsed" =>
         /\ lines = << >>
         /\ exports = parse_wit_exports(wit_content)

\* A returned parse of a text with a malformed function line (two colons)
\* that also recorded a function.
C10_Witness ==
    /\ pc = "parsed"
    /\ Contains(wit_content, lnTwoColons)
    /\ \E k \in DOMAIN exports : exports[k] # {}

----------------------------------------------------------------------------
\* A whole run as a function of its inputs.

\* The exit status of a run, whether an exception ended it and the number of
\* extractor calls, for the namespace a (or the way parse_args ends), the
\* environment io, the states of the two files, the outcome and the output
\* (as read) of the extractor and the content of the WIT file.
RunResult(a, io, c_stat, w_stat, w_open, outcome, out, file) ==
    LET Crash(kept, calls) ==
            [status |-> ProcessStatus(1, kept \cup Traceback(io)),
             raised |-> TRUE, calls |-> calls]
        Leave(code, kept, calls) ==
            [status |-> ProcessStatus(code, kept), raised |-> FALSE,
             calls |-> calls]
        End(p, code, kept, calls) ==
            IF p.raised THEN Crash(kept \cup p.kept, calls)
            ELSE Leave(code, kept \cup p.kept, calls)
        pv == Prints(io, VerbosePrints(io, a))
        ph == Prints(io, HeaderPrints(io, a))
        px == Prints(io, ExtractPrints(io, a, outcome))
        pf == Prints(io, FoundPrints(io))
        ps == Prints(io, SummaryPrints(io))
        k1 == pv.kept
        k2 == k1 \cup ph.kept
        k3 == k2 \cup px.kept
        k4 == k3 \cup pf.kept
    IN  IF a.status = "help"
        THEN Leave(ParserExit("help"), KeptOf(io, HelpPrints(io)), 0)
        ELSE IF a.status # "ok"
        THEN Leave(ParserExit(a.status), KeptOf(io, UsagePrints(io)), 0)
        ELSE IF pv.raised THEN Crash(k1, 0)
        ELSE IF c_stat = "OSError" THEN Crash(k1, 0)
        ELSE IF c_stat = "missing"
        THEN End(Prints(io, MissingPrints(io, a.component)), 1, k1, 0)
        ELSE IF w_stat = "OSError" THEN Crash(k1, 0)
        ELSE IF w_stat = "missing"
        THEN End(Prints(io, MissingPrints(io, a.wit_file)), 1, k1, 0)
        ELSE IF ph.raised THEN Crash(k2, 0)
        ELSE IF px.raised THEN Crash(k3, 1)
        ELSE IF ~Truthy(ExtractResult(outcome, out)) THEN Leave(1, k3, 1)
        ELSE IF w_open # "ok"
        THEN End(Prints(io, ReadPrints(io, a, w_open)), 1, k3, 1)
        ELSE IF pf.raised THEN Crash(k4, 1)
        ELSE IF ps.raised THEN Crash(k4 \cup ps.kept, 1)
        ELSE Leave(IF ValidationPassed(parse_wit_exports(Strip(out)),
                                       parse_wit_exports(UniversalNewlines(file)))
                   THEN 0 ELSE 1, k4 \cup ps.kept, 1)

\* The result of the run for its inputs.
ThisRun(a) ==
    RunResult(a, IO, component_stat, wit_stat, wit_open, run_outcome, stdout,
              wit_file)

\* A finished run ended as RunResult says.
RunAsResult ==
    pc = "exit" =>
        /\ exit_code = Some(ThisRun(parse_result).status)
        /\ raised = ThisRun(parse_result).raised
        /\ extract_calls = ThisRun(parse_result).calls

----------------------------------------------------------------------------
\* Claims about a run of the command line (checked under Spec).

\* Every function of every expected interface is among the functions of the
\* component's interfaces related to it by containment.
AllExpectedFound(actual, expected) ==
    \A i \in DOMAIN expected : expected[i] \subseteq UnionOfRelated(actual, i)

\* The command line of the run is accepted: parse_args returns.
ArgsAccepted == parse_result.status = "ok"

\* sys.stdout and sys.stderr take every write and sys.stdout encodes UTF-8.
PlainStreams ==
    encoding = "utf-8" /\ stdout_state = "ok" /\ stderr_state = "ok"

\* C2 as stated, for the runs whose command line is accepted and whose
\* standard streams take the whole report: the run exits with status 0 if
\* and only if both files exist, the extractor exits with status 0 and every
\* expected function is found in the component's exports; otherwise it exits
\* with status 1.
C2_ExitZeroIff ==
    (pc = "exit" /\ ArgsAccepted /\ PlainStreams) =>
        /\ exit_code \in {Some(0), Some(1)}
        /\ exit_code = Some(0) <=>
              /\ component_exists
              /\ wit_exists
              /\ run_outcome = "ok"
              /\ AllExpectedFound(parse_wit_exports(stdout),
                                  parse_wit_exports(UniversalNewlines(wit_file)))

\* The extractor ended with a non-zero status, a timeout or could not be
\* started.
ExtractionFailed == run_outcome \in {"nonzero", "timeout", "oserror"}

\* After a failed extraction nothing was read, parsed or compared.
NothingAfterExtraction ==
    /\ pc \in {"extracted", "returned", "exit"}
    /\ component_wit = None
    /\ wit_file = << >>
    /\ expected_wit = None
    /\ ret = "none"
    /\ wit_content = << >>
    /\ exports = EmptyMap
    /\ component_exports = EmptyMap
    /\ expected_exports = EmptyMap
    /\ diffs = EmptyMap

\* C11 as stated: the extractor is called at most once in a run; when it ends
\* with a non-zero status, a timeout or cannot be started, the run exits with
\* status 1, and the WIT file is never read, no text is parsed and nothing is
\* compared.
C11_ExtractionFailureExitsOne ==
    /\ extract_calls <= 1
    /\ ExtractionFailed =>
         /\ NothingAfterExtraction
         /\ pc = "exit" => exit_code = Some(1)

\* C11 (amended): the extractor is called at most once in a run; when it ends
\* with a non-zero status, a timeout or cannot be started, the WIT file is
\* never read, no text is parsed and nothing is compared; validate_exports
\* returns False, or the print of the failure message raises, and the run
\* exits with status 1, or with status 120 when a standard stream holds text
\* that it could not write.
C11_ExtractionFailureAborts ==
    /\ extract_calls <= 1
    /\ ExtractionFailed =>
         /\ NothingAfterExtraction
         /\ (pc \in {"returned", "exit"} /\ ~raised) => success = Some(FALSE)
         /\ pc = "exit" => exit_code = Some(IF unflushed # {} THEN 120 ELSE 1)

\* A run that ended with status 120 after the extractor timed out: the lines
\* printed on a sys.stdout that cannot be written were still in its buffer.
C11_Witness ==
    /\ pc = "exit"
    /\ run_outcome = "timeout"
    /\ extract_calls = 1
    /\ success = Some(FALSE)
    /\ unflushed = {"stdout"}
    /\ exit_code = Some(120)

\* The component file or the WIT file does not exist.
InputMissing == component_stat = "missing" \/ wit_stat = "missing"

\* C12 as stated: when the component file or the WIT file does not exist, the
\* run exits with status 1, and the extractor is never called, nothing is
\* read, parsed or compared.
C12_MissingInputExitsOne ==
    InputMissing =>
        /\ extract_calls = 0
        /\ run_outcome = "none"
        /\ expected_wit = None
        /\ ret = "none"
        /\ exports = EmptyMap
        /\ diffs = EmptyMap
        /\ success = None
        /\ pc = "exit" => exit_code = Some(1)

\* C12 (amended): when the component file or the WIT file does not exist, the
\* extractor is never called and nothing is read, parsed or compared; the run
\* ends in main with status 1 when its command line is accepted, and it ends
\* in parse_args, before the files are looked at, with status 2 when the
\* command line is in error and with status 0 when it asks for help; the
\* status is 120 instead when a standard stream holds text that it could not
\* write.
C12_MissingInputExitsFirst ==
    InputMissing =>
        /\ pc \in {"parse_args", "main", "check_wit", "exit"}
        /\ ~ArgsAccepted => pc \in {"parse_args", "exit"}
        /\ component_stat = "missing" => pc # "check_wit"
        /\ extract_calls = 0
        /\ run_outcome = "none"
        /\ wit_file = << >>
        /\ expected_wit = None
        /\ ret = "none"
        /\ exports = EmptyMap
        /\ diffs = EmptyMap
        /\ success = None
        /\ pc = "exit" =>
              exit_code = IF unflushed # {} THEN Some(120)
                          ELSE IF ArgsAccepted THEN Some(1)
                          ELSE IF parse_result.status = "error" THEN Some(2)
                          ELSE Some(0)

\* A run with an accepted command line that ended because the WIT file is
\* missing (the component exists).
C12_Witness ==
    /\ pc = "exit"
    /\ ArgsAccepted
    /\ component_exists
    /\ wit_stat = "missing"
    /\ extract_calls = 0
    /\ ~raised
    /\ exit_code = Some(1)

\* C13 as stated: the export maps, the verdict and the exit status of a run
\* are determined by its inputs other than the world name, so the run with
\* any other world name, everything else being the same, ends with the same
\* exit status.
C13_WorldIrrelevant ==
    /\ pc \in {"compare", "returned", "exit"} /\ ret = "expected" =>
         /\ component_exports = parse_wit_exports(Strip(stdout))
         /\ expected_exports = parse_wit_exports(UniversalNewlines(wit_file))
    /\ success = Some(TRUE) =>
         ValidationPassed(parse_wit_exports(Strip(stdout)),
                          parse_wit_exports(UniversalNewlines(wit_file)))
    /\ (pc = "exit" /\ ArgsAccepted /\ world = w1) =>
         \A w \in Worlds :
            exit_code = Some(ThisRun([parse_result EXCEPT !.world = w]).status)

----------------------------------------------------------------------------
\* Claims about single steps of the parser (checked under SpecParse).

\* The scan is about to process a line.
Scanning == pc = "parse" /\ lines # << >>

\* The line the next step of the scan processes, stripped.
Scanned == Strip(Head(lines))

\* The step taken is the processing of that line.
Scans == lines' = Tail(lines)

\* The line starts with "export " and contains "@".
ExportShape(l) == StartsWith(l, kwExport \o <<" ">>) /\ <<"@">> \in {<<c>> : c \in Range(l)}

\* The line starts with "interface " and holds no "{".
InterfaceShape(l) == StartsWith(l, kwInterface \o <<" ">>) /\ "{" \notin Range(l)

\* The line contains ": func(", does not start with "//" and is neither an
\* export line nor an interface line.
FuncShape(l) ==
    /\ Contains(l, kwColonFunc)
    /\ ~StartsWith(l, kwComment)
    /\ ~ExportShape(l)
    /\ ~InterfaceShape(l)

\* The trimmed text between "export" and the first ";" (or the end of the line).
ExportIdentifier(l) == Strip(SubSeq(l, Len(kwExport) + 1, RunNot(l, ";")))

\* The trimmed text before the first colon of the line.
NameBeforeColon(l) == Strip(SubSeq(l, 1, RunNot(l, ":")))

\* The first colon of the line has text before it and is followed, after
\* optional whitespace, by "func(".
FirstColonIsFunc(l) ==
    /\ RunNot(l, ":") >= 1
    /\ StartsWith(Drop(Drop(l, RunNot(l, ":") + 1),
                       LeadingWS(Drop(l, RunNot(l, ":") + 1))), kwFunc)

\* C14: processing an export line leaves current_interface and every existing
\* entry of the map unchanged; it adds at most the identifier of the line,
\* with an empty function set.
C14_ExportLineFrame ==
    [][(Scanning /\ Scans /\ ExportShape(Scanned)) =>
          /\ current_interface' = current_interface
          /\ \A k \in DOMAIN exports :
                k \in DOMAIN exports' /\ exports'[k] = exports[k]
          /\ \A k \in DOMAIN exports' \ DOMAIN exports :
                k = ExportIdentifier(Scanned) /\ exports'[k] = {}]_vars

\* A returned parse of "interface a@1", "f: func()", "export a@1;": the export
\* line names an interface whose function was already recorded.
C14_Witness ==
    /\ pc = "parsed"
    /\ wit_content = Join(<<lnHeader(nA1), lnFunc(fF), lnExport>>)
    /\ exports = (nA1 :> {fF})

\* C15 as stated: after a function line is processed inside an interface, the
\* trimmed text before its first colon is in the function set of
\* current_interface.
C15_FuncLineRecorded ==
    [][(Scanning /\ Scans /\ Truthy(current_interface) /\ FuncShape(Scanned)) =>
          NameBeforeColon(Scanned) \in exports'[current_interface[1]]]_vars

\* C15 (amended): after such a line is processed, the trimmed text before its
\* first colon has been added to the function set of current_interface when
\* that text is non-empty and the first colon is followed, after optional
\* whitespace, by "func(" (further colons may follow); otherwise the line
\* changes nothing.
C15_FuncLineRecordedAtFirstColon ==
    [][(Scanning /\ Scans /\ Truthy(current_interface) /\ FuncShape(Scanned)) =>
          /\ current_interface' = current_interface
          /\ IF FirstColonIsFunc(Scanned)
             THEN exports' = [exports EXCEPT ![current_interface[1]] =
                                 @ \cup {NameBeforeColon(Scanned)}]
             ELSE exports' = exports]_vars

\* A returned parse of "interface a", "\tg: func(x: u)", "h: x: func()": the
\* line with a colon after "func(" recorded g, the line with a colon before
\* ": func(" recorded nothing.
C15_Witness ==
    /\ pc = "parsed"
    /\ wit_content = Join(<<lnHeader(nA), lnIndented, lnTwoColons>>)
    /\ exports = (nA :> {fG})

\* C16: a "}" line processed inside an interface clears current_interface and
\* leaves the map alone; outside an interface it changes nothing; a function
\* line (one the export and interface rules do not take) processed outside
\* an interface changes nothing.
C16_TwoStateScanner ==
    [][(Scanning /\ Scans) =>
          /\ Scanned = kwClose =>
                current_interface' = None /\ exports' = exports
          /\ (FuncShape(Scanned) /\ current_interface = None) =>
                current_interface' = None /\ exports' = exports]_vars

\* A returned parse of "interface a", "}", "f: func()": the brace left the
\* interface and the function after it was not recorded.
C16_Witness ==
    /\ pc = "parsed"
    /\ wit_content = Join(<<lnHeader(nA), kwClose, lnFunc(fF)>>)
    /\ exports = (nA :> {})
    /\ current_interface = None

====
